---- MODULE Spec2Model ----
(***************************************************************************)
(* Model of src/main.py: a Streamlit script that guards a chat page with a *)
(* password, keeps the conversation in st.session_state.messages, and on a *)
(* prompt runs a hierarchical CrewAI crew of three tasks whose callbacks    *)
(* (CustomHandler) write into the same message log while the crew runs.    *)
(*                                                                         *)
(* One behaviour of the model is one browser session: a sequence of script *)
(* runs (Streamlit reruns the script on every interaction) sharing the     *)
(* session state.  What the language model decides (whom the manager       *)
(* delegates to, what an agent finds, what text comes back) is a           *)
(* nondeterministic choice.  kickoff() works through Crew(tasks=[...]) in   *)
(* list order; under Process.hierarchical the manager handles each task    *)
(* and may hand work to any agent of Crew(agents=[...]), whose executor    *)
(* then reports chain start, actions and chain end to its CustomHandler.   *)
(***************************************************************************)
EXTENDS Naturals, Sequences, FiniteSets

VARIABLES
    pc,         \* position of the current script run
    passed,     \* what check_password() returned in this run: "yes" | "no" | "-"
    session,    \* st.session_state: [has |-> "messages" in it, messages |-> the log]
    rendered,   \* chat messages written to the page by the current run
    runStart,   \* session as it was when the current run began (history)
    prompt,     \* the query accepted by st.chat_input in this run, or NoPrompt
    choices,    \* open choices made so far in the session: prompts typed,
                \* delegations and tool actions decided by the language model
    turnStart,  \* Len(session.messages) just before this run's prompt was logged
    task,       \* index in tasks of the task the manager works on
    mgr,        \* manager on the current task: "ready" | "working" | "delegating",
                \* "done" once the last task has ended
    target,     \* co-worker the manager is delegating to, or NoAgent
    active,     \* co-worker whose executor is running, or NoAgent
    trace,      \* callbacks the framework made in this turn, in call order (history)
    binds,      \* whether the framework's on_agent_action call binds the handler's
                \* two positional parameters (fixed by the installed framework)
    final       \* value returned by project_crew.kickoff(), or NoText

vars == <<pc, passed, session, rendered, runStart, prompt, choices, turnStart, task, mgr,
          target, active, trace, binds, final>>

crewVars == <<task, mgr, target, active, trace, binds, final>>

----------------------------------------------------------------------------
(* Bounds of the model *)

\* prompts, delegations and tool actions a session may hold in all
MaxChoices == 3

----------------------------------------------------------------------------
(* Texts are sequences of tokens, so that concatenation is visible. *)

NoPrompt == <<>>

NoText == <<>>

NoAgent == "-"

information_retrieval_agent == "information_retrieval_agent"

researcher == "researcher"

customer_service_agent == "customer_service_agent"

CrewManager == "manager"

\* Crew(agents=[...])
agents == {information_retrieval_agent, researcher, customer_service_agent}

\* Mutants of the task list: the researcher's task left out, the first two
\* tasks swapped, the composer's task moved up.
tasksWithoutResearcher == <<information_retrieval_agent, customer_service_agent>>

tasksResearcherFirst == <<researcher, information_retrieval_agent, customer_service_agent>>

tasksComposerSecond == <<information_retrieval_agent, customer_service_agent, researcher>>

\* Crew(tasks=[...]): each task named by the agent it is written for
tasks == <<information_retrieval_agent, researcher, customer_service_agent>>

\* CustomHandler(agent_name) attached to each agent and to the manager
AgentName(a) ==
    CASE a = information_retrieval_agent -> "Medishield Information Provider"
      [] a = researcher -> "Medisave Researcher"
      [] a = customer_service_agent -> "Customer Service Officer"
      [] OTHER -> "Crew Manager"

\* the keywords listed in the information provider's task description
Keywords ==
    {"medishield", "benefit", "coverage", "premium", "payment", "policy",
     "subsidies", "deductible", "claim", "co-insurance", "exclusions",
     "insurance", "healthcare", "protection", "hospital", "ward",
     "outpatient", "surgery", "treatment", "pro-ration", "withdrawal", "limit"}

HasKeyword(q) == \E i \in 1..Len(q) : q[i] \in Keywords

\* queries a user may type
Queries == {<<"hello">>, <<"claim", "process">>}

Greeting ==
    <<"How can I help you navigate your healthcare planning today? Your well-being is our priority!">>

Header == <<"## Thanks for waiting. Here is the information you requested. \n\n ">>

Fallback == <<"I'm sorry. I do not have the answer to this enquiry.">>

\* what the findings of a search agent look like
Findings(a) == <<"findings", a>>

NothingFound == <<"nothing found">>

\* texts the last task may return: the bare fallback, or a composed letter
Finals ==
    {Fallback,
     <<"Fellow Citizen, thank you for your enquiry.">> \o <<"answer">> \o <<"tip">>}

\* texts a task other than the last may return
TaskOutputs == {<<"task output">>}

Msg(r, c) == [role |-> r, content |-> c]

Ev(ph, a, f, t) == [ph |-> ph, ag |-> a, out |-> f, t |-> t]

----------------------------------------------------------------------------
(* CustomHandler *)

Log(m) ==
    /\ session' = [session EXCEPT !.messages = Append(@, m)]
    /\ rendered' = Append(rendered, m)

on_chain_start(name, input) == Log(Msg("assistant", input))

\* The framework reports an action by calling on_agent_action(action, **kwargs);
\* the method asks for two positional arguments.  binds says whether the call
\* binds them; if not the call raises before the body and nothing is logged.
on_agent_action(name, input) ==
    IF binds THEN Log(Msg("assistant", input))
    ELSE UNCHANGED <<session, rendered>>

on_chain_end(name, output) == Log(Msg(name, output))

----------------------------------------------------------------------------
(* The script *)

Init ==
    /\ pc = "gate"
    /\ passed = "-"
    /\ session = [has |-> FALSE, messages |-> <<>>]
    /\ rendered = <<>>
    /\ runStart = [has |-> FALSE, messages |-> <<>>]
    /\ prompt = NoPrompt
    /\ choices = 0
    /\ turnStart = 0
    /\ task = 1
    /\ mgr = "ready"
    /\ target = NoAgent
    /\ active = NoAgent
    /\ trace = <<>>
    /\ binds \in BOOLEAN
    /\ final = NoText

\* any interaction reruns the script from the top with the same session state
Rerun ==
    /\ pc \in {"stopped", "end", "crashed"}
    /\ pc' = "gate"
    /\ passed' = "-"
    /\ rendered' = <<>>
    /\ runStart' = session
    /\ prompt' = NoPrompt
    /\ turnStart' = 0
    /\ task' = 1
    /\ mgr' = "ready"
    /\ target' = NoAgent
    /\ active' = NoAgent
    /\ trace' = <<>>
    /\ final' = NoText
    /\ UNCHANGED <<session, choices, binds>>

\* Mutant: the check is made but st.stop() is missing
CheckPasswordNoStop(ok) ==
    /\ pc = "gate"
    /\ passed' = IF ok THEN "yes" ELSE "no"
    /\ pc' = "init"
    /\ UNCHANGED <<session, rendered, runStart, prompt, choices, turnStart>>
    /\ UNCHANGED crewVars

\* if not check_password(): st.stop()
CheckPassword(ok) ==
    /\ pc = "gate"
    /\ passed' = IF ok THEN "yes" ELSE "no"
    /\ pc' = IF ok THEN "init" ELSE "stopped"
    /\ UNCHANGED <<session, rendered, runStart, prompt, choices, turnStart>>
    /\ UNCHANGED crewVars

\* if "messages" not in st.session_state: ...
InitMessages ==
    /\ pc = "init"
    /\ session' = IF session.has THEN session
                  ELSE [has |-> TRUE, messages |-> <<Msg("assistant", Greeting)>>]
    /\ pc' = "display"
    /\ UNCHANGED <<passed, rendered, runStart, prompt, choices, turnStart>>
    /\ UNCHANGED crewVars

\* for msg in st.session_state.messages: st.chat_message(...).write(...)
DisplayMessages ==
    /\ pc = "display"
    /\ rendered' = rendered \o session.messages
    /\ pc' = "input"
    /\ UNCHANGED <<passed, session, runStart, prompt, choices, turnStart>>
    /\ UNCHANGED crewVars

\* Mutant: the prompt is shown but not appended to the log
ChatInputNotLogged(q) ==
    /\ pc = "input"
    /\ choices < MaxChoices
    /\ prompt' = q
    /\ choices' = choices + 1
    /\ turnStart' = Len(session.messages)
    /\ rendered' = Append(rendered, Msg("user", q))
    /\ pc' = "kickoff"
    /\ UNCHANGED <<passed, session, runStart>>
    /\ UNCHANGED crewVars

\* if prompt := st.chat_input(): log it, show it, build the tasks and the crew
ChatInput(q) ==
    /\ pc = "input"
    /\ choices < MaxChoices
    /\ prompt' = q
    /\ choices' = choices + 1
    /\ turnStart' = Len(session.messages)
    /\ Log(Msg("user", q))
    /\ pc' = "kickoff"
    /\ UNCHANGED <<passed, runStart>>
    /\ UNCHANGED crewVars

\* st.chat_input() returned nothing: the script falls through to the disclaimer
NoInput ==
    /\ pc = "input"
    /\ pc' = "end"
    /\ UNCHANGED <<passed, session, rendered, runStart, prompt, choices, turnStart>>
    /\ UNCHANGED crewVars

----------------------------------------------------------------------------
(* project_crew.kickoff(): Process.hierarchical *)

\* the manager takes up the current task
ManagerStartTask ==
    /\ pc = "kickoff"
    /\ mgr = "ready"
    /\ on_chain_start(AgentName(CrewManager), <<"task", tasks[task]>>)
    /\ trace' = Append(trace, Ev("Start", CrewManager, tasks[task], task))
    /\ mgr' = "working"
    /\ UNCHANGED <<pc, passed, runStart, prompt, choices, turnStart>>
    /\ UNCHANGED <<task, target, active, binds, final>>

\* the manager decides to hand work to co-worker a
ManagerDelegate(a) ==
    /\ pc = "kickoff"
    /\ mgr = "working"
    /\ choices < MaxChoices
    /\ on_agent_action(AgentName(CrewManager), <<"delegate to", a>>)
    /\ trace' = Append(trace, Ev("Action", CrewManager,
                                 IF binds THEN "logged" ELSE "dropped", task))
    /\ mgr' = "delegating"
    /\ target' = a
    /\ choices' = choices + 1
    /\ UNCHANGED <<pc, passed, runStart, prompt, turnStart>>
    /\ UNCHANGED <<task, active, binds, final>>

\* the co-worker's executor starts on the delegated work
AgentStart ==
    /\ pc = "kickoff"
    /\ mgr = "delegating"
    /\ active = NoAgent
    /\ on_chain_start(AgentName(target), <<"delegated work", target>>)
    /\ trace' = Append(trace, Ev("Start", target, "-", task))
    /\ active' = target
    /\ UNCHANGED <<pc, passed, runStart, prompt, choices, turnStart>>
    /\ UNCHANGED <<task, mgr, target, binds, final>>

\* the co-worker uses a tool
AgentAction ==
    /\ pc = "kickoff"
    /\ active # NoAgent
    /\ choices < MaxChoices
    /\ on_agent_action(AgentName(active), <<"action", active>>)
    /\ trace' = Append(trace, Ev("Action", active,
                                 IF binds THEN "logged" ELSE "dropped", task))
    /\ choices' = choices + 1
    /\ UNCHANGED <<pc, passed, runStart, prompt, turnStart>>
    /\ UNCHANGED <<task, mgr, target, active, binds, final>>

\* the co-worker returns, with findings or with nothing
AgentEnd(found) ==
    /\ pc = "kickoff"
    /\ active # NoAgent
    /\ on_chain_end(AgentName(active), IF found THEN Findings(active) ELSE NothingFound)
    /\ trace' = Append(trace, Ev("End", active, IF found THEN "some" ELSE "none", task))
    /\ active' = NoAgent
    /\ target' = NoAgent
    /\ mgr' = "working"
    /\ UNCHANGED <<pc, passed, runStart, prompt, choices, turnStart>>
    /\ UNCHANGED <<task, binds, final>>

\* Mutant: the manager takes the first task up again instead of moving on
ManagerEndTaskAgain(out) ==
    /\ pc = "kickoff"
    /\ mgr = "working"
    /\ active = NoAgent
    /\ out \in (IF task = Len(tasks) THEN Finals ELSE TaskOutputs)
    /\ on_chain_end(AgentName(CrewManager), out)
    /\ trace' = Append(trace, Ev("End", CrewManager, tasks[task], task))
    /\ IF task < Len(tasks)
       THEN /\ task' = IF Len(trace) < 3 THEN task ELSE task + 1
            /\ mgr' = "ready"
            /\ UNCHANGED <<pc, final>>
       ELSE /\ final' = out
            /\ pc' = "result"
            /\ mgr' = "done"
            /\ UNCHANGED task
    /\ UNCHANGED <<passed, runStart, prompt, choices, turnStart>>
    /\ UNCHANGED <<target, active, binds>>

\* the manager finishes the current task with text out; after the last task
\* kickoff returns that text
ManagerEndTask(out) ==
    /\ pc = "kickoff"
    /\ mgr = "working"
    /\ active = NoAgent
    /\ out \in (IF task = Len(tasks) THEN Finals ELSE TaskOutputs)
    /\ on_chain_end(AgentName(CrewManager), out)
    /\ trace' = Append(trace, Ev("End", CrewManager, tasks[task], task))
    /\ IF task < Len(tasks)
       THEN /\ task' = task + 1
            /\ mgr' = "ready"
            /\ UNCHANGED <<pc, final>>
       ELSE /\ final' = out
            /\ pc' = "result"
            /\ mgr' = "done"
            /\ UNCHANGED task
    /\ UNCHANGED <<passed, runStart, prompt, choices, turnStart>>
    /\ UNCHANGED <<target, active, binds>>

\* a language-model or tool call inside kickoff raises: nothing in the script
\* catches it, the run ends there
KickoffRaises ==
    /\ pc = "kickoff"
    /\ mgr # "ready"
    /\ pc' = "crashed"
    /\ UNCHANGED <<passed, session, rendered, runStart, prompt, choices, turnStart>>
    /\ UNCHANGED crewVars

\* Mutant: the crew's text handed on as it is
ResultBare(f) == f

\* result = f"## Thanks for waiting. ... \n\n {final}"
Result(f) == Header \o f

\* the result is logged and shown
AppendResult ==
    /\ pc = "result"
    /\ Log(Msg("assistant", Result(final)))
    /\ pc' = "end"
    /\ UNCHANGED <<passed, runStart, prompt, choices, turnStart>>
    /\ UNCHANGED crewVars

Next ==
    \/ Rerun
    \/ \E ok \in BOOLEAN : CheckPassword(ok)
    \/ InitMessages
    \/ DisplayMessages
    \/ \E q \in Queries : ChatInput(q)
    \/ NoInput
    \/ ManagerStartTask
    \/ \E a \in agents : ManagerDelegate(a)
    \/ AgentStart
    \/ AgentAction
    \/ \E f \in BOOLEAN : AgentEnd(f)
    \/ \E out \in Finals \cup TaskOutputs : ManagerEndTask(out)
    \/ KickoffRaises
    \/ AppendResult

Spec == Init /\ [][Next]_vars

----------------------------------------------------------------------------
(* Vocabulary of the properties *)

\* a prompt was accepted in the current run
InTurn == prompt # NoPrompt

\* the part of the log written since the prompt of the current run arrived
TurnLog == SubSeq(session.messages, turnStart + 1, Len(session.messages))

IsEv(e, ph, a) == e.ph = ph /\ e.ag = a

Last(q) == q[Len(q)]

\* the search agents returned no findings in this turn (or were never invoked)
NoFindings ==
    \A i \in DOMAIN trace :
        ~(trace[i].ph = "End" /\ trace[i].ag \in {information_retrieval_agent, researcher}
          /\ trace[i].out = "some")

InfoFound(i) == IsEv(trace[i], "End", information_retrieval_agent) /\ trace[i].out = "some"

InfoEmpty(i) == IsEv(trace[i], "End", information_retrieval_agent) /\ trace[i].out = "none"

ResearchFound(i) == IsEv(trace[i], "End", researcher) /\ trace[i].out = "some"

\* the manager's Start / End of the task written for agent a
TaskStart(i, a) == IsEv(trace[i], "Start", CrewManager) /\ trace[i].out = a

TaskEnd(i, a) == IsEv(trace[i], "End", CrewManager) /\ trace[i].out = a

IsResult(m) == m.role = "assistant" /\ Len(m.content) >= 1 /\ m.content[1] = Header[1]

----------------------------------------------------------------------------
(* C1 *)

\* C1 as claimed: once InformationAgent has returned non-empty findings,
\* ResearchAgent is not invoked in that turn, and ResearchAgent is invoked only
\* when the query has no keyword or InformationAgent returned nothing.
C1_ShortCircuit ==
    \A j \in DOMAIN trace :
        IsEv(trace[j], "Start", researcher) =>
            /\ \A i \in 1..(j - 1) : ~InfoFound(i)
            /\ \/ ~HasKeyword(prompt)
               \/ \E i \in 1..(j - 1) : InfoEmpty(i)

\* C1 amended: whatever InformationAgent returned, the researcher's task is part
\* of the turn: kickoff returns only after the manager has started and ended
\* the researcher's task, after the information provider's task.
C1_ResearcherTaskAlwaysRuns ==
    (InTurn /\ pc \in {"result", "end"}) =>
        \E i, j, k \in DOMAIN trace :
            /\ i < j /\ j < k
            /\ TaskEnd(i, information_retrieval_agent)
            /\ TaskStart(j, researcher)
            /\ TaskEnd(k, researcher)

\* C1 witness: a finished turn in which InformationAgent returned findings and
\* ResearchAgent was invoked afterwards.
C1_Witness ==
    /\ InTurn /\ pc = "end"
    /\ \E i, j \in DOMAIN trace :
          i < j /\ InfoFound(i) /\ IsEv(trace[j], "Start", researcher)

----------------------------------------------------------------------------
(* C2 *)

\* C2 as claimed: the keyword gate routes before any agent runs: with a keyword
\* InformationAgent is the first agent invoked, without one InformationAgent is
\* never invoked and the first agent invoked is ResearchAgent.
C2_KeywordGateRoutes ==
    InTurn =>
        \A j \in DOMAIN trace :
            (trace[j].ph = "Start" /\ trace[j].ag \in agents
             /\ \A i \in 1..(j - 1) : ~(trace[i].ph = "Start" /\ trace[i].ag \in agents))
            => trace[j].ag = (IF HasKeyword(prompt) THEN information_retrieval_agent
                              ELSE researcher)

\* C2 amended: with or without a keyword in the query, the first thing a turn
\* does is take up the information provider's task, and the researcher's task
\* is taken up only after that task has ended.
C2_InformationTaskFirst ==
    (InTurn /\ trace # <<>>) =>
        /\ TaskStart(1, information_retrieval_agent)
        /\ \A j \in DOMAIN trace :
              TaskStart(j, researcher) =>
                  \E i \in 1..(j - 1) : TaskEnd(i, information_retrieval_agent)

\* C2 witness: a query without any keyword for which InformationAgent ran.
C2_Witness ==
    /\ InTurn /\ ~HasKeyword(prompt)
    /\ \E j \in DOMAIN trace : IsEv(trace[j], "End", information_retrieval_agent)
    /\ \E j \in DOMAIN trace : TaskStart(j, researcher)

----------------------------------------------------------------------------
(* C3 *)

\* C3 as claimed: when neither search agent produced findings, the content
\* appended to the log and rendered last is exactly the fallback string.
C3_BareFallback ==
    (InTurn /\ pc = "end" /\ NoFindings) =>
        /\ Last(session.messages).content = Fallback
        /\ Last(rendered).content = Fallback

\* C3 amended: the content appended and rendered at the end of a turn is the
\* fixed header followed by the text the crew returned; with no findings and a
\* crew that returns the fallback string, that is header + fallback.
C3_HeaderThenFinal ==
    (InTurn /\ pc = "end") =>
        /\ Last(session.messages).role = "assistant"
        /\ Len(Last(session.messages).content) = 1 + Len(final)
        /\ Last(session.messages).content[1] = Header[1]
        /\ SubSeq(Last(session.messages).content, 2, 1 + Len(final)) = final
        /\ Last(rendered) = Last(session.messages)

\* C3 witness: a finished turn without findings whose crew returned the fallback.
C3_Witness == InTurn /\ pc = "end" /\ NoFindings /\ final = Fallback

----------------------------------------------------------------------------
(* C4 *)

\* C4 as claimed: once the crew of a turn has stopped, the events of every
\* invoked agent are one Start, then only its own Actions, then one End, with
\* no event of another agent or of the crew manager between.
C4_ExactlyOneEnd ==
    (InTurn /\ pc \in {"crashed", "result", "end"}) =>
        \A i \in DOMAIN trace :
            (trace[i].ph = "Start" /\ trace[i].ag \in agents) =>
                \E j \in (i + 1)..Len(trace) :
                    /\ IsEv(trace[j], "End", trace[i].ag)
                    /\ \A k \in (i + 1)..(j - 1) : IsEv(trace[k], "Action", trace[i].ag)

----------------------------------------------------------------------------
(* C5 *)

\* C5 as claimed: at most one of InformationAgent and ResearchAgent returns
\* non-empty findings in a turn.
C5_AtMostOneFinding ==
    ~(\E i, j \in DOMAIN trace : InfoFound(i) /\ ResearchFound(j))

\* C5 amended: both agents may return findings in one turn; what is fixed is
\* that the composer's task is taken up only after the information provider's
\* task and the researcher's task have both ended.
C5_ComposerTaskAfterBoth ==
    \A k \in DOMAIN trace :
        TaskStart(k, customer_service_agent) =>
            /\ \E i \in 1..(k - 1) : TaskEnd(i, information_retrieval_agent)
            /\ \E j \in 1..(k - 1) : TaskEnd(j, researcher)

\* C5 witness: the composer's task taken up after both agents returned findings.
C5_Witness ==
    \E i, j, k \in DOMAIN trace :
        /\ InfoFound(i) /\ ResearchFound(j)
        /\ i < k /\ j < k
        /\ TaskStart(k, customer_service_agent)

----------------------------------------------------------------------------
(* C6 *)

\* C6 as claimed: while the crew of a turn is running nothing is appended to
\* the log.
C6_NoAppendWhileRunning == [][pc = "kickoff" => session' = session]_vars

\* C6 amended: the log of a turn starts with the user's prompt, appended before
\* the crew runs; while the crew runs the callbacks append their entries; the
\* result entry is appended once, last, after kickoff has returned.
C6_ResultOnlyAfterKickoff ==
    InTurn =>
        /\ Len(TurnLog) >= 1
        /\ TurnLog[1] = Msg("user", prompt)
        /\ \A i \in 2..Len(TurnLog) : IsResult(TurnLog[i]) => (pc = "end" /\ i = Len(TurnLog))
        /\ pc = "end" => IsResult(Last(TurnLog))

\* C6 witness: the crew is running and callbacks have already written entries.
C6_Witness == InTurn /\ pc = "kickoff" /\ active # NoAgent /\ Len(TurnLog) >= 3

----------------------------------------------------------------------------
(* C7 *)

\* C7 as claimed: a failing call does not leave the turn unfinished: the run
\* goes on to the composer and the user gets the fallback answer.
C7_FailureYieldsFallback ==
    pc = "crashed" =>
        \/ Last(session.messages).content = Fallback
        \/ Last(session.messages).content = Header \o Fallback

----------------------------------------------------------------------------
(* C8 *)

----------------------------------------------------------------------------
(* C9 *)

\* C9 as claimed: every event reported by a callback is in the log, in the
\* order of the reports: the entries after the prompt are the events' entries.
C9_EveryEventLogged ==
    InTurn =>
        /\ Len(TurnLog) >= 1 + Len(trace)
        /\ \A i \in DOMAIN trace :
              TurnLog[1 + i].role =
                  (IF trace[i].ph = "End" THEN AgentName(trace[i].ag) ELSE "assistant")

----------------------------------------------------------------------------
(* C10 *)

\* C10: in a run whose password check failed, the session state is what it was
\* at the start of the run (the log neither initialised nor appended to),
\* nothing has been rendered, no prompt was accepted and no crew callback ran.
C10_NothingPastFailedGate ==
    passed = "no" =>
        /\ session = runStart
        /\ rendered = <<>>
        /\ prompt = NoPrompt
        /\ trace = <<>>
        /\ final = NoText

\* C10 witness: the check fails in a session that already holds a conversation.
C10_Witness == passed = "no" /\ session.has /\ Len(session.messages) > 1

====
